---- MODULE Spec2Model ----
(***************************************************************************)
(* Couple Monthly Budget API (src/backend/main.py): a FastAPI layer over   *)
(* an SQLite store of users, budgets and expenses.                          *)
(*                                                                         *)
(* Text values (dates, interval bounds) are sequences of one-character     *)
(* strings, so that formatting (f"{year:04d}"), parsing (strptime) and     *)
(* SQLite's byte-wise TEXT comparison are modelled by what they do.        *)
(* Expense.memo and Expense.created_at are stored and returned untouched   *)
(* by every handler and are left out of the expense records.               *)
(***************************************************************************)
EXTENDS Integers, Sequences, FiniteSets, TLC

VARIABLES
    users,        \* table users: set of [id, name]
    budgets,      \* table budgets: set of [id, year, month, amount]
    expenses,     \* table expenses: set of [id, date, user_id, category, amount]
    budgetSeq,    \* AUTOINCREMENT counter of budgets.id
    expenseSeq,   \* AUTOINCREMENT counter of expenses.id
    resp,         \* the request and the response of the last API call
    conns,        \* number of store connections currently open
    summ,         \* the get_summary call in flight (statement by statement)
    iv            \* inputs and results of the month interval computation

vars == <<users, budgets, expenses, budgetSeq, expenseSeq, resp, conns, summ, iv>>

----------------------------------------------------------------------------
(* Text: characters, byte order, decimal formatting.                       *)

Digits == <<"0", "1", "2", "3", "4", "5", "6", "7", "8", "9">>

DigitSet == {Digits[i] : i \in 1..10}

\* Byte value of a character (ASCII); SQLite compares TEXT with memcmp.
Ord(c) ==
    CASE c = " " -> 32
      [] c = "-" -> 45
      [] c \in DigitSet -> 47 + (CHOOSE i \in 1..10 : Digits[i] = c)
      [] OTHER -> 0

DigitVal(c) == Ord(c) - 48

\* s[i], or "" past either end of s.
At(s, i) == IF i \in 1..Len(s) THEN s[i] ELSE ""

RECURSIVE DecDigits(_)
\* The decimal digits of n >= 0.
DecDigits(n) ==
    IF n < 10 THEN <<Digits[n + 1]>>
    ELSE DecDigits(n \div 10) \o <<Digits[(n % 10) + 1]>>

RECURSIVE Zeros(_)
Zeros(k) == IF k <= 0 THEN <<>> ELSE <<"0">> \o Zeros(k - 1)

\* Python's format spec "0<w>d": sign, then zeros up to width w, then digits.
FormatInt(n, w) ==
    LET sign == IF n < 0 THEN <<"-">> ELSE <<>>
        digs == DecDigits(IF n < 0 THEN -n ELSE n)
    IN  sign \o Zeros(w - Len(sign) - Len(digs)) \o digs

RECURSIVE TextLess(_, _)
\* a < b in SQLite's BINARY collation: byte-wise, a proper prefix is smaller.
TextLess(a, b) ==
    IF b = <<>> THEN FALSE
    ELSE IF a = <<>> THEN TRUE
    ELSE IF Ord(Head(a)) # Ord(Head(b)) THEN Ord(Head(a)) < Ord(Head(b))
    ELSE TextLess(Tail(a), Tail(b))

TextLeq(a, b) == a = b \/ TextLess(a, b)

----------------------------------------------------------------------------
(* datetime.strptime(s, "%Y-%m-%d")                                        *)

IsLeap(y) == y % 4 = 0 /\ (y % 100 # 0 \/ y % 400 = 0)

DaysInMonth(y, m) ==
    IF m = 2 THEN (IF IsLeap(y) THEN 29 ELSE 28)
    ELSE IF m \in {4, 6, 9, 11} THEN 30 ELSE 31

\* %m is the pattern 1[0-2]|0[1-9]|[1-9], followed by the literal "-":
\* the number of characters of s at p it matches, 0 for no match.
MatchMonth(s, p) ==
    IF /\ \/ At(s, p) = "1" /\ At(s, p + 1) \in {"0", "1", "2"}
          \/ At(s, p) = "0" /\ At(s, p + 1) \in (DigitSet \ {"0"})
       /\ At(s, p + 2) = "-"
    THEN 2
    ELSE IF At(s, p) \in (DigitSet \ {"0"}) /\ At(s, p + 1) = "-"
    THEN 1
    ELSE 0

\* %d is the pattern 3[0-1]|[1-2]\d|0[1-9]|[1-9]| [1-9], the first
\* alternative that matches at p: the number of characters, 0 for no match.
MatchDay(s, p) ==
    IF At(s, p) = "3" /\ At(s, p + 1) \in {"0", "1"} THEN 2
    ELSE IF At(s, p) \in {"1", "2"} /\ At(s, p + 1) \in DigitSet THEN 2
    ELSE IF At(s, p) = "0" /\ At(s, p + 1) \in (DigitSet \ {"0"}) THEN 2
    ELSE IF At(s, p) \in (DigitSet \ {"0"}) THEN 1
    ELSE IF At(s, p) = " " /\ At(s, p + 1) \in (DigitSet \ {"0"}) THEN 2
    ELSE 0

\* The value of the digits (and blanks) of s from p to p + n - 1.
FieldVal(s, p, n) ==
    IF n = 1 THEN DigitVal(s[p])
    ELSE IF s[p] = " " THEN DigitVal(s[p + 1])
    ELSE 10 * DigitVal(s[p]) + DigitVal(s[p + 1])

NoDate == [ok |-> FALSE, year |-> 0, month |-> 0, day |-> 0]

\* strptime: the date parsed, or ok = FALSE where it raises ValueError (no
\* match, unconverted data remains, year 0, day out of range for month).
Strptime(s) ==
    IF ~ (/\ \A i \in 1..4 : At(s, i) \in DigitSet
          /\ At(s, 5) = "-")
    THEN NoDate
    ELSE
    LET ml == MatchMonth(s, 6)
        dp == 6 + ml + 1
        dl == MatchDay(s, dp)
    IN  IF ml = 0 \/ dl = 0 \/ dp + dl - 1 # Len(s) THEN NoDate
        ELSE
        LET y == 1000 * DigitVal(s[1]) + 100 * DigitVal(s[2])
                 + 10 * DigitVal(s[3]) + DigitVal(s[4])
            m == FieldVal(s, 6, ml)
            d == FieldVal(s, dp, dl)
        IN  IF y < 1 \/ d > DaysInMonth(y, m) THEN NoDate
            ELSE [ok |-> TRUE, year |-> y, month |-> m, day |-> d]

----------------------------------------------------------------------------
(* The month interval [start_date, end_date) of list_expenses and of       *)
(* get_summary.                                                            *)

\* The month == 12 branch left out.
ListIntervalNoRollover(year, month) ==
    [start_date |-> FormatInt(year, 4) \o <<"-">> \o FormatInt(month, 2)
                    \o <<"-", "0", "1">>,
     end_date   |-> FormatInt(year, 4) \o <<"-">> \o FormatInt(month + 1, 2)
                    \o <<"-", "0", "1">>]

ListInterval(year, month) ==
    [start_date |-> FormatInt(year, 4) \o <<"-">> \o FormatInt(month, 2)
                    \o <<"-", "0", "1">>,
     end_date   |-> IF month = 12
                    THEN FormatInt(year + 1, 4) \o <<"-", "0", "1", "-", "0", "1">>
                    ELSE FormatInt(year, 4) \o <<"-">> \o FormatInt(month + 1, 2)
                         \o <<"-", "0", "1">>]

SummaryInterval(year, month) ==
    [start_date |-> FormatInt(year, 4) \o <<"-">> \o FormatInt(month, 2)
                    \o <<"-", "0", "1">>,
     end_date   |-> IF month = 12
                    THEN FormatInt(year + 1, 4) \o <<"-", "0", "1", "-", "0", "1">>
                    ELSE FormatInt(year, 4) \o <<"-">> \o FormatInt(month + 1, 2)
                         \o <<"-", "0", "1">>]

\* WHERE date >= ? AND date < ?
InInterval(date, interval) ==
    TextLeq(interval.start_date, date) /\ TextLess(date, interval.end_date)

----------------------------------------------------------------------------
(* Bounds and request inputs.                                              *)

MaxExpenses == 2      \* expenses ever inserted (the AUTOINCREMENT counter)
MaxLeaks == 2         \* connections left open by failed calls

None == <<>>

Some(v) == <<v>>

\* "YYYY-MM-DD" with zero-padded fields, and the same date without padding.
PaddedDate(y, m, d) ==
    FormatInt(y, 4) \o <<"-">> \o FormatInt(m, 2) \o <<"-">> \o FormatInt(d, 2)

PlainDate(y, m, d) ==
    FormatInt(y, 4) \o <<"-">> \o DecDigits(m) \o <<"-">> \o DecDigits(d)

\* ExpenseIn.date is any str.
DateInputs ==
    { PaddedDate(2024, 2, 5), PlainDate(2024, 2, 5), PaddedDate(2024, 12, 31),
      PaddedDate(2024, 13, 1) }

UserIdInputs == {1, 3}

CategoryInputs == {"food", "transport"}

AmountInputs == {1000, 3000}

BudgetAmountInputs == {0, 5000}

\* (year, month) of the budget and summary requests.
MonthInputs == { <<2024, 2>>, <<2024, 12>> }

ExpenseIdInputs == 1..(MaxExpenses + 1)

----------------------------------------------------------------------------
(* The store.                                                              *)

\* init_db: the two default users (named "남편" and "아내" in the source).
SeedUsers == { [id |-> 1, name |-> "husband"], [id |-> 2, name |-> "wife"] }

RECURSIVE SumAmount(_)
\* SUM(amount) over a set of rows.
SumAmount(rows) ==
    IF rows = {} THEN 0
    ELSE LET r == CHOOSE x \in rows : TRUE
         IN  r.amount + SumAmount(rows \ {r})

RECURSIVE SortById(_)
\* ORDER BY id: the rows of a table as a sequence.
SortById(rows) ==
    IF rows = {} THEN <<>>
    ELSE LET r == CHOOSE x \in rows : \A z \in rows : x.id <= z.id
         IN  <<r>> \o SortById(rows \ {r})

RECURSIVE Orders(_)
\* Every arrangement of a set of rows as a sequence.
Orders(rows) ==
    IF rows = {} THEN { <<>> }
    ELSE UNION { { <<r>> \o s : s \in Orders(rows \ {r}) } : r \in rows }

\* SELECT id, name FROM users WHERE id=?
UserRows(us, user_id) == { u \in us : u.id = user_id }

\* SELECT ... FROM budgets WHERE year=? AND month=?
BudgetRows(bs, year, month) == { b \in bs : b.year = year /\ b.month = month }

\* INSERT OR IGNORE: a conflicting row keeps its amount.
UpsertKeepingOld(bs, seq, year, month, amount) ==
    IF BudgetRows(bs, year, month) # {} THEN bs
    ELSE bs \cup { [id |-> seq + 1, year |-> year, month |-> month,
                    amount |-> amount] }

\* INSERT INTO budgets ... ON CONFLICT(year, month) DO UPDATE SET amount
Upsert(bs, seq, year, month, amount) ==
    IF BudgetRows(bs, year, month) # {}
    THEN { IF b.year = year /\ b.month = month
           THEN [b EXCEPT !.amount = amount] ELSE b : b \in bs }
    ELSE bs \cup { [id |-> seq + 1, year |-> year, month |-> month,
                    amount |-> amount] }

\* The largest id of a table, at least seq (sqlite_sequence).
SeqAfter(rows, seq) ==
    IF \E r \in rows : r.id > seq
    THEN CHOOSE n \in { r.id : r \in rows } : \A r \in rows : r.id <= n
    ELSE seq

\* expenses e JOIN users u ON e.user_id = u.id, as ExpenseOut rows.
JoinUsers(es, us) ==
    { [id |-> e.id, date |-> e.date, user_id |-> e.user_id,
       user_name |-> u.name, category |-> e.category, amount |-> e.amount]
      : <<e, u>> \in { p \in es \X us : p[1].user_id = p[2].id } }

\* DELETE FROM expenses WHERE id=?
DeleteRows(es, expense_id) == { e \in es : e.id # expense_id }

\* WHERE date >= ? AND date < ?
RowsIn(es, interval) == { e \in es : InInterval(e.date, interval) }

\* SELECT COALESCE(SUM(amount), 0) FROM expenses WHERE date >= ? AND date < ?
TotalUsed(es, interval) == SumAmount(RowsIn(es, interval))

\* users u LEFT JOIN expenses e ON u.id = e.user_id AND e.date >= ? AND
\* e.date < ? GROUP BY u.id, u.name ORDER BY u.id
ByUserRows(us, es, interval) ==
    LET S == SortById(us)
    IN  [ i \in 1..Len(S) |->
            [user_name  |-> S[i].name,
             total_used |-> SumAmount({ e \in RowsIn(es, interval) :
                                          e.user_id = S[i].id })] ]

\* The largest amount of each category in place of the sum.
CategoryGroupsMax(es, interval) ==
    { [category   |-> c,
       total_used |-> CHOOSE a \in { e.amount : e \in RowsIn(es, interval) } :
                        \A e \in RowsIn(es, interval) :
                            e.category = c => e.amount <= a]
      : c \in { e.category : e \in RowsIn(es, interval) } }

\* SELECT category, COALESCE(SUM(amount), 0) ... GROUP BY category
CategoryGroups(es, interval) ==
    { [category   |-> c,
       total_used |-> SumAmount({ e \in RowsIn(es, interval) : e.category = c })]
      : c \in { e.category : e \in RowsIn(es, interval) } }

IsDescending(s) == \A i \in 1..(Len(s) - 1) : s[i].total_used >= s[i + 1].total_used

\* ... ORDER BY total_used DESC: the results SQLite may return (the order of
\* groups with equal totals is not determined by the statement).
ByCategoryRows(es, interval) ==
    { s \in Orders(CategoryGroups(es, interval)) : IsDescending(s) }

IsDateThenId(s) ==
    \A i \in 1..(Len(s) - 1) :
        \/ TextLess(s[i].date, s[i + 1].date)
        \/ s[i].date = s[i + 1].date /\ s[i].id < s[i + 1].id

\* The query of list_expenses, with its optional filters.
ListRows(es, us, interval, user_id, category) ==
    LET rows == { e \in RowsIn(es, interval) :
                    /\ user_id # None => e.user_id = user_id[1]
                    /\ category # None => e.category = category[1] }
    IN  CHOOSE s \in Orders(JoinUsers(rows, us)) : IsDateThenId(s)

\* round(total_used / budget_amount * 100, 1), in tenths of a percent
\* (half to even on the exact quotient).
UsageRate(total_used, budget_amount) ==
    LET n == total_used * 1000
        q == n \div budget_amount
        r == n % budget_amount
    IN  IF 2 * r > budget_amount \/ (2 * r = budget_amount /\ q % 2 = 1)
        THEN q + 1 ELSE q

\* The operands of the subtraction exchanged.
RemainSwapped(budget_amount, total_used) == total_used - budget_amount

\* remain = budget_amount - total_used
Remain(budget_amount, total_used) == budget_amount - total_used

\* if budget_amount > 0
HasRate(budget_amount) == budget_amount[1] > 0

\* The SummaryOut built from the four query results.
SummaryOut(year, month, budget_amount, total_used, by_user, by_category) ==
    [year |-> year, month |-> month, budget |-> budget_amount,
     total_used |-> total_used,
     remain |-> IF budget_amount # None
                THEN Some(Remain(budget_amount[1], total_used)) ELSE None,
     usage_rate |-> IF budget_amount # None /\ HasRate(budget_amount)
                    THEN Some(UsageRate(total_used, budget_amount[1])) ELSE None,
     by_user |-> by_user, by_category |-> by_category]

----------------------------------------------------------------------------
(* Initial state: the store after init_db, no call made yet.               *)

NoResponse == [op |-> "none", status |-> 0, req |-> <<>>, body |-> <<>>]

SummaryIdle ==
    [pc |-> "idle", year |-> 0, month |-> 0, budget_amount |-> None,
     total_used |-> 0, by_user |-> <<>>, by_category |-> <<>>, torn |-> FALSE]

IntervalIdle == [year |-> 0, month |-> 0, list |-> None, summary |-> None]

Init ==
    /\ users = SeedUsers
    /\ budgets = {}
    /\ expenses = {}
    /\ budgetSeq = 0
    /\ expenseSeq = 0
    /\ resp = NoResponse
    /\ conns = 0
    /\ summ = SummaryIdle
    /\ iv = IntervalIdle

----------------------------------------------------------------------------
(* The handlers.  fail = 0: every storage statement of the call succeeds;  *)
(* fail = k > 0: the k-th storage statement of the call raises, and the    *)
(* exception leaves the handler (FastAPI answers 500).  get_conn() adds a  *)
(* connection, conn.close() removes it.                                    *)

\* A write that commits between the aggregate queries of a get_summary call
\* in flight is noted in that call (history, read by no handler).
NoteWrite(s, changed) ==
    IF changed /\ s.pc \in {"by_user", "by_category"}
    THEN [s EXCEPT !.torn = TRUE] ELSE s

list_users(fail) ==
    /\ fail > 0 => conns < MaxLeaks
    /\ conns' = (conns + 1) - (IF fail = 0 THEN 1 ELSE 0)
    /\ resp' = [op |-> "list_users", status |-> IF fail = 0 THEN 200 ELSE 500,
                req |-> <<>>,
                body |-> IF fail = 0 THEN SortById(users) ELSE <<>>]
    /\ UNCHANGED <<users, budgets, expenses, budgetSeq, expenseSeq, summ, iv>>

set_budget(year, month, amount, fail) ==
    /\ fail > 0 => conns < MaxLeaks
    /\ budgets' = IF fail = 0 THEN Upsert(budgets, budgetSeq, year, month, amount)
                  ELSE budgets
    /\ budgetSeq' = SeqAfter(budgets', budgetSeq)
    /\ conns' = (conns + 1) - (IF fail = 0 THEN 1 ELSE 0)
    /\ resp' = [op |-> "set_budget", status |-> IF fail = 0 THEN 200 ELSE 500,
                req |-> [year |-> year, month |-> month, amount |-> amount],
                body |-> IF fail = 0
                         THEN [year |-> year, month |-> month, amount |-> amount]
                         ELSE <<>>]
    /\ UNCHANGED <<users, expenses, expenseSeq, summ, iv>>

get_budget(year, month, fail) ==
    /\ fail > 0 => conns < MaxLeaks
    /\ conns' = (conns + 1) - (IF fail = 0 THEN 1 ELSE 0)
    /\ LET rows == BudgetRows(budgets, year, month)
       IN  resp' = [op |-> "get_budget",
                    status |-> IF fail > 0 THEN 500
                               ELSE IF rows = {} THEN 404 ELSE 200,
                    req |-> [year |-> year, month |-> month],
                    body |-> IF fail = 0 /\ rows # {}
                             THEN LET row == CHOOSE b \in rows : TRUE
                                  IN  [year |-> row.year, month |-> row.month,
                                       amount |-> row.amount]
                             ELSE <<>>]
    /\ UNCHANGED <<users, budgets, expenses, budgetSeq, expenseSeq, summ, iv>>

\* if not user_row, skipped.
UserFoundAlways(us, user_id) == TRUE

\* user_row = cur.fetchone(); if not user_row: ...
UserFound(us, user_id) == UserRows(us, user_id) # {}

\* try: datetime.strptime(expense.date, "%Y-%m-%d") except ValueError: ...
DateAccepted(date) == Strptime(date).ok

\* Statements: 1 SELECT user, 2 INSERT, 3 commit, 4 SELECT the new row.
create_expense(date, user_id, category, amount, fail) ==
    LET valid == DateAccepted(date)
        found == UserFound(users, user_id)
        inserts == valid /\ found /\ fail \notin {1, 2}
        commits == inserts /\ fail # 3
        row == [id |-> expenseSeq + 1, date |-> date, user_id |-> user_id,
                category |-> category, amount |-> amount]
        out == JoinUsers({row}, users)
    IN  /\ ~ valid => fail = 0
        /\ (valid /\ ~ found) => fail <= 1
        /\ fail > 0 => conns < MaxLeaks
        /\ inserts => expenseSeq < MaxExpenses
        /\ expenses' = IF commits THEN expenses \cup {row} ELSE expenses
        /\ expenseSeq' = IF commits THEN expenseSeq + 1 ELSE expenseSeq
        /\ conns' = IF ~ valid THEN conns
                    ELSE (conns + 1) - (IF fail = 0 THEN 1 ELSE 0)
        /\ resp' = [op |-> "create_expense",
                    status |-> IF ~ valid THEN 400
                               ELSE IF fail > 0 THEN 500
                               ELSE IF ~ found THEN 400
                               ELSE IF out = {} THEN 500 ELSE 200,
                    req |-> [date |-> date, user_id |-> user_id,
                             category |-> category, amount |-> amount],
                    body |-> IF valid /\ found /\ fail = 0 /\ out # {}
                             THEN CHOOSE r \in out : TRUE ELSE <<>>]
        /\ summ' = NoteWrite(summ, commits)
        /\ UNCHANGED <<users, budgets, budgetSeq, iv>>

list_expenses(year, month, user_id, category, fail) ==
    /\ fail > 0 => conns < MaxLeaks
    /\ conns' = (conns + 1) - (IF fail = 0 THEN 1 ELSE 0)
    /\ LET interval == ListInterval(year, month)
       IN  resp' = [op |-> "list_expenses",
                    status |-> IF fail = 0 THEN 200 ELSE 500,
                    req |-> [year |-> year, month |-> month,
                             user_id |-> user_id, category |-> category],
                    body |-> IF fail = 0
                             THEN ListRows(expenses, users, interval, user_id, category)
                             ELSE <<>>]
    /\ UNCHANGED <<users, budgets, expenses, budgetSeq, expenseSeq, summ, iv>>

\* changes taken as 1 whatever the DELETE did.
ChangesAlwaysOne(before, after) == 1

\* changes = conn.total_changes, on a connection that ran this one DELETE.
TotalChanges(before, after) == Cardinality(before \ after)

\* Statements: 1 DELETE, 2 commit.
delete_expense(expense_id, fail) ==
    LET after == DeleteRows(expenses, expense_id)
        changes == TotalChanges(expenses, after)
    IN  /\ fail > 0 => conns < MaxLeaks
        /\ expenses' = IF fail = 0 THEN after ELSE expenses
        /\ conns' = (conns + 1) - (IF fail = 0 THEN 1 ELSE 0)
        /\ resp' = [op |-> "delete_expense",
                    status |-> IF fail > 0 THEN 500
                               ELSE IF changes = 0 THEN 404 ELSE 200,
                    req |-> [expense_id |-> expense_id],
                    body |-> <<>>]
        /\ summ' = NoteWrite(summ, fail = 0 /\ after # expenses)
        /\ UNCHANGED <<users, budgets, budgetSeq, expenseSeq, iv>>

\* Statements: 1 budget, 2 total, 3 by user, 4 by category; the whole call.
get_summary(year, month, fail) ==
    LET interval == SummaryInterval(year, month)
        rows == BudgetRows(budgets, year, month)
        budget_amount == IF rows = {} THEN None
                         ELSE Some((CHOOSE b \in rows : TRUE).amount)
    IN  /\ fail > 0 => conns < MaxLeaks
        /\ conns' = (conns + 1) - (IF fail = 0 THEN 1 ELSE 0)
        /\ \E by_category \in ByCategoryRows(expenses, interval) :
             resp' = [op |-> "get_summary",
                      status |-> IF fail = 0 THEN 200 ELSE 500,
                      req |-> [year |-> year, month |-> month],
                      body |-> IF fail = 0
                               THEN SummaryOut(year, month, budget_amount,
                                               TotalUsed(expenses, interval),
                                               ByUserRows(users, expenses, interval),
                                               by_category)
                               ELSE <<>>]
        /\ UNCHANGED <<users, budgets, expenses, budgetSeq, expenseSeq, summ, iv>>

\* The ExpenseIn requests: food bought for 1000 and transport for 3000, on
\* each date by each user; the refused ones (date, user) for food only.
ExpenseInputs ==
    { e \in [date : DateInputs, user_id : UserIdInputs,
             category : CategoryInputs, amount : AmountInputs] :
        /\ e.category = "food" <=> e.amount = 1000
        /\ (~ DateAccepted(e.date) \/ ~ UserFound(SeedUsers, e.user_id))
             => e.category = "food" }

\* One client at a time, the storage never failing.
Next ==
    \/ list_users(0)
    \/ \E ym \in MonthInputs, amount \in BudgetAmountInputs :
         set_budget(ym[1], ym[2], amount, 0)
    \/ \E ym \in MonthInputs : get_budget(ym[1], ym[2], 0)
    \/ \E e \in ExpenseInputs :
         create_expense(e.date, e.user_id, e.category, e.amount, 0)
    \/ \E ym \in MonthInputs, filter \in {<<None, None>>, <<Some(1), Some("food")>>} :
         list_expenses(ym[1], ym[2], filter[1], filter[2], 0)
    \/ \E expense_id \in ExpenseIdInputs : delete_expense(expense_id, 0)
    \/ \E ym \in MonthInputs : get_summary(ym[1], ym[2], 0)

Spec == Init /\ [][Next]_vars

----------------------------------------------------------------------------
(* Properties of the handlers, one client at a time (Spec).                *)

IsCall(r, op) == r.op = op

\* C1: create_expense with a user_id that is the id of no stored user ends in
\* a client-input error (400) and leaves the stored expenses as they were: no
\* row is inserted, in any reachable store state.
C1_UnknownUserRefused ==
    [][ (IsCall(resp', "create_expense") /\ UserRows(users, resp'.req.user_id) = {})
          => (/\ resp'.status = 400
              /\ expenses' = expenses
              /\ expenseSeq' = expenseSeq) ]_vars

\* An unknown user refused (with a well-formed date) on a store that already
\* holds expenses.
C1_Witness ==
    /\ IsCall(resp, "create_expense")
    /\ resp.status = 400
    /\ Strptime(resp.req.date).ok
    /\ UserRows(users, resp.req.user_id) = {}
    /\ expenses # {}

SameMonth(b, year, month) == b.year = year /\ b.month = month

\* C2: the store holds at most one budget per (year, month); a set_budget call
\* leaves exactly the amount it was given under its (year, month) and leaves
\* the budgets of the other months as they were; no other call changes the
\* budgets.  So each stored amount is the one of the latest set_budget call
\* for its month.
C2_BudgetUpsert ==
    /\ [](\A b1, b2 \in budgets :
            SameMonth(b1, b2.year, b2.month) => b1 = b2)
    /\ [][ IF IsCall(resp', "set_budget")
           THEN /\ \E b \in budgets' :
                     /\ SameMonth(b, resp'.req.year, resp'.req.month)
                     /\ b.amount = resp'.req.amount
                /\ { b \in budgets' : ~ SameMonth(b, resp'.req.year, resp'.req.month) }
                   = { b \in budgets : ~ SameMonth(b, resp'.req.year, resp'.req.month) }
           ELSE budgets' = budgets ]_vars

\* The month whose budget was stored first has just been set again, after the
\* other month's budget was stored: an overwrite, with two months stored.
C2_Witness ==
    /\ IsCall(resp, "set_budget")
    /\ Cardinality(budgets) = 2
    /\ \E b \in budgets :
         /\ SameMonth(b, resp.req.year, resp.req.month)
         /\ b.id = 1
         /\ b.amount = 5000

\* C4: delete_expense with an id of no stored expense answers 404 and leaves
\* users, budgets and expenses unchanged (so does a repetition of the call);
\* with the id of a stored expense it removes exactly that expense and
\* answers success.
C4_DeleteExpense ==
    [][ IsCall(resp', "delete_expense") =>
          LET hit == { e \in expenses : e.id = resp'.req.expense_id }
          IN  /\ UNCHANGED <<users, budgets>>
              /\ hit = {} => (resp'.status = 404 /\ expenses' = expenses)
              /\ hit # {} => (/\ resp'.status = 200
                              /\ Cardinality(hit) = 1
                              /\ expenses' = expenses \ hit) ]_vars

\* Expense 1 was deleted and the deletion is asked again: 404, the other
\* expense still stored.
C4_Witness ==
    /\ IsCall(resp, "delete_expense")
    /\ resp.status = 404
    /\ resp.req.expense_id = 1
    /\ expenseSeq = 2
    /\ { e.id : e \in expenses } = {2}

\* A date of the form YYYY-MM-DD: ten characters, digits with "-" at 5 and 8,
\* naming a day of the calendar.
IsIsoDate(s) ==
    /\ Len(s) = 10
    /\ \A i \in {1, 2, 3, 4, 6, 7, 9, 10} : s[i] \in DigitSet
    /\ s[5] = "-" /\ s[8] = "-"
    /\ LET y == 1000 * DigitVal(s[1]) + 100 * DigitVal(s[2])
                + 10 * DigitVal(s[3]) + DigitVal(s[4])
           m == 10 * DigitVal(s[6]) + DigitVal(s[7])
           d == 10 * DigitVal(s[9]) + DigitVal(s[10])
       IN  y >= 1 /\ m \in 1..12 /\ d \in 1..DaysInMonth(y, m)

\* C5: every stored expense's date is a calendar date in YYYY-MM-DD form
\* (four-digit year, two-digit month, two-digit day), and create_expense with
\* any other date string fails with 400 and inserts nothing.
C5_StoredDatesAreIso ==
    /\ \A e \in expenses : IsIsoDate(e.date)
    /\ (IsCall(resp, "create_expense") /\ ~ IsIsoDate(resp.req.date))
         => resp.status = 400

\* C6: in every summary, remain is null exactly when no budget is stored for
\* (year, month) and is budget amount - total_used otherwise; usage_rate is
\* non-null exactly when a budget is stored and its amount is > 0.
C6_RemainAndUsageRate ==
    (IsCall(resp, "get_summary") /\ resp.status = 200) =>
        LET stored == BudgetRows(budgets, resp.req.year, resp.req.month)
            out == resp.body
        IN  /\ out.remain = None <=> stored = {}
            /\ \A b \in stored : out.remain = Some(b.amount - out.total_used)
            /\ out.usage_rate # None <=> \E b \in stored : b.amount > 0

\* A summary of a month with a budget of 0 and expenses: no usage_rate, and
\* remain = 0 - total_used.
C6_Witness ==
    /\ IsCall(resp, "get_summary")
    /\ resp.status = 200
    /\ \E b \in BudgetRows(budgets, resp.req.year, resp.req.month) : b.amount = 0
    /\ resp.body.total_used > 0
    /\ resp.body.usage_rate = None
    /\ resp.body.remain = Some(0 - resp.body.total_used)

\* The date lies in the month (year, month) of the calendar.
DatedIn(date, year, month) ==
    LET d == Strptime(date)
    IN  d.ok /\ d.year = year /\ d.month = month

\* C7: by_user has exactly one entry per stored user, and a user with no
\* expense dated inside the month appears with total_used = 0.
C7_ByUserEveryUser ==
    (IsCall(resp, "get_summary") /\ resp.status = 200) =>
        LET out == resp.body
            S == SortById(users)
        IN  /\ Len(out.by_user) = Cardinality(users)
            /\ \A i \in 1..Len(S) :
                 /\ out.by_user[i].user_name = S[i].name
                 /\ (~ \E e \in expenses :
                         /\ e.user_id = S[i].id
                         /\ DatedIn(e.date, resp.req.year, resp.req.month))
                      => out.by_user[i].total_used = 0

\* C8: by_category holds a category exactly when a stored expense of that
\* category is dated inside the month, each total is the sum of those
\* expenses' amounts, and the totals do not increase along the list.
C8_ByCategory ==
    (IsCall(resp, "get_summary") /\ resp.status = 200) =>
        LET out == resp.body
            inMonth == { e \in expenses :
                           DatedIn(e.date, resp.req.year, resp.req.month) }
            listed == { out.by_category[i].category :
                          i \in 1..Len(out.by_category) }
        IN  /\ listed = { e.category : e \in inMonth }
            /\ Cardinality(listed) = Len(out.by_category)
            /\ \A i \in 1..Len(out.by_category) :
                 out.by_category[i].total_used
                   = SumAmount({ e \in inMonth :
                                   e.category = out.by_category[i].category })
            /\ IsDescending(out.by_category)

\* With every stored date in YYYY-MM-DD form the text comparison of the
\* queries agrees with the calendar, and both statements hold.
DatesIsoImpliesC7C8 ==
    (\A e \in expenses : IsIsoDate(e.date)) => (C7_ByUserEveryUser /\ C8_ByCategory)

----------------------------------------------------------------------------
(* The month interval alone (SpecInterval): year and month are drawn in    *)
(* the initial state, list_expenses and get_summary each compute theirs.   *)

IntervalYears == {-1, 0, 1, 999, 1000, 2023, 2024, 9998, 9999}

InitInterval ==
    /\ users = SeedUsers
    /\ budgets = {}
    /\ expenses = {}
    /\ budgetSeq = 0
    /\ expenseSeq = 0
    /\ resp = NoResponse
    /\ conns = 0
    /\ summ = SummaryIdle
    /\ iv \in [year : IntervalYears, month : 1..12, list : {None}, summary : {None}]

list_expenses_interval ==
    /\ iv.list = None
    /\ iv' = [iv EXCEPT !.list = Some(ListInterval(iv.year, iv.month))]
    /\ UNCHANGED <<users, budgets, expenses, budgetSeq, expenseSeq, resp, conns, summ>>

get_summary_interval ==
    /\ iv.summary = None
    /\ iv' = [iv EXCEPT !.summary = Some(SummaryInterval(iv.year, iv.month))]
    /\ UNCHANGED <<users, budgets, expenses, budgetSeq, expenseSeq, resp, conns, summ>>

NextInterval == list_expenses_interval \/ get_summary_interval

SpecInterval == InitInterval /\ [][NextInterval]_vars

RECURSIVE DigitsVal(_)
\* The number a sequence of digits writes.
DigitsVal(s) ==
    IF s = <<>> THEN 0
    ELSE 10 * DigitsVal(SubSeq(s, 1, Len(s) - 1)) + DigitVal(s[Len(s)])

\* The <<year, month, day>> that a text "<year>-MM-DD" writes (the year a
\* decimal number of at least four characters, "-" first if negative), or
\* <<>> if the text has another form.
ReadDate(s) ==
    LET n == Len(s) - 6
        neg == At(s, 1) = "-"
        yd == IF neg THEN SubSeq(s, 2, n) ELSE SubSeq(s, 1, n)
    IN  IF /\ n >= 4
           /\ yd # <<>>
           /\ \A i \in 1..Len(yd) : yd[i] \in DigitSet
           /\ s[n + 1] = "-" /\ s[n + 4] = "-"
           /\ \A i \in {n + 2, n + 3, n + 5, n + 6} : s[i] \in DigitSet
        THEN << (IF neg THEN 0 - DigitsVal(yd) ELSE DigitsVal(yd)),
                DigitsVal(SubSeq(s, n + 2, n + 3)),
                DigitsVal(SubSeq(s, n + 5, n + 6)) >>
        ELSE <<>>

IsMonthInterval(interval, year, month) ==
    /\ ReadDate(interval.start_date) = <<year, month, 1>>
    /\ ReadDate(interval.end_date)
         = IF month = 12 THEN <<year + 1, 1, 1>> ELSE <<year, month + 1, 1>>

\* C3: for every year and every month in 1..12, the interval of list_expenses
\* and the one of get_summary start on day 1 of (year, month) and end on day 1
\* of the following month: January 1 of year + 1 for month 12, day 1 of
\* month + 1 of the same year otherwise.
C3_MonthInterval ==
    /\ iv.list # None => IsMonthInterval(iv.list[1], iv.year, iv.month)
    /\ iv.summary # None => IsMonthInterval(iv.summary[1], iv.year, iv.month)

\* Both handlers have computed the interval of December 2024.
C3_Witness ==
    /\ iv.year = 2024 /\ iv.month = 12
    /\ iv.list # None /\ iv.summary # None
    /\ iv.list[1].end_date = PaddedDate(2025, 1, 1)
    /\ iv.summary[1].end_date = PaddedDate(2025, 1, 1)

----------------------------------------------------------------------------
(* Storage statements that fail (SpecFault): one client at a time, each    *)
(* call with any one of its statements raising.                            *)

NextFault ==
    \/ \E fail \in 0..1 : list_users(fail)
    \/ \E fail \in 0..2 : set_budget(2024, 12, 5000, fail)
    \/ \E ym \in MonthInputs, fail \in 0..1 : get_budget(ym[1], ym[2], fail)
    \/ \E date \in {PaddedDate(2024, 12, 31), PaddedDate(2024, 13, 1)},
          user_id \in UserIdInputs, fail \in 0..4 :
         create_expense(date, user_id, "food", 1000, fail)
    \/ \E fail \in 0..1 : list_expenses(2024, 12, None, None, fail)
    \/ \E expense_id \in ExpenseIdInputs, fail \in 0..2 :
         delete_expense(expense_id, fail)
    \/ \E fail \in 0..4 : get_summary(2024, 12, fail)

SpecFault == Init /\ [][NextFault]_vars

\* C9: every call that opens a store connection has closed it when the call
\* has ended, on every exit path (normal return, the 404 of get_budget and of
\* delete_expense, the unknown user of create_expense, a storage statement
\* that fails): no connection is open after a call.
C9_ConnectionsReleased == conns = 0

\* The exits that the handlers do close: whatever the call, a call none of
\* whose statements failed leaves as many connections open as it found.
ClosedUnlessStatementFails ==
    [][ resp'.status # 500 => conns' = conns ]_vars

----------------------------------------------------------------------------
(* get_summary statement by statement (SpecConc): the sqlite3 module opens *)
(* no transaction for a SELECT, so each of the four queries reads the      *)
(* store as committed at its own moment, and the create_expense and        *)
(* delete_expense calls of other clients (each on its own connection, in   *)
(* its own thread of the server's pool) may commit between them.           *)

summary_begin(year, month) ==
    /\ summ.pc \in {"idle", "done"}
    /\ summ' = [SummaryIdle EXCEPT !.pc = "budget", !.year = year, !.month = month]
    /\ conns' = conns + 1
    /\ UNCHANGED <<users, budgets, expenses, budgetSeq, expenseSeq, resp, iv>>

summary_select_budget ==
    /\ summ.pc = "budget"
    /\ LET rows == BudgetRows(budgets, summ.year, summ.month)
       IN  summ' = [summ EXCEPT
                      !.pc = "total",
                      !.budget_amount = IF rows = {} THEN None
                                        ELSE Some((CHOOSE b \in rows : TRUE).amount)]
    /\ UNCHANGED <<users, budgets, expenses, budgetSeq, expenseSeq, resp, conns, iv>>

summary_select_total ==
    /\ summ.pc = "total"
    /\ summ' = [summ EXCEPT
                  !.pc = "by_user",
                  !.total_used = TotalUsed(expenses,
                                           SummaryInterval(summ.year, summ.month))]
    /\ UNCHANGED <<users, budgets, expenses, budgetSeq, expenseSeq, resp, conns, iv>>

summary_select_by_user ==
    /\ summ.pc = "by_user"
    /\ summ' = [summ EXCEPT
                  !.pc = "by_category",
                  !.by_user = ByUserRows(users, expenses,
                                         SummaryInterval(summ.year, summ.month))]
    /\ UNCHANGED <<users, budgets, expenses, budgetSeq, expenseSeq, resp, conns, iv>>

summary_select_by_category ==
    /\ summ.pc = "by_category"
    /\ \E rows \in ByCategoryRows(expenses, SummaryInterval(summ.year, summ.month)) :
         summ' = [summ EXCEPT !.pc = "close", !.by_category = rows]
    /\ UNCHANGED <<users, budgets, expenses, budgetSeq, expenseSeq, resp, conns, iv>>

\* conn.close(), remain and usage_rate, return SummaryOut(...)
summary_return ==
    /\ summ.pc = "close"
    /\ conns' = conns - 1
    /\ summ' = [summ EXCEPT !.pc = "done"]
    /\ resp' = [op |-> "get_summary", status |-> 200,
                req |-> [year |-> summ.year, month |-> summ.month],
                body |-> SummaryOut(summ.year, summ.month, summ.budget_amount,
                                    summ.total_used, summ.by_user, summ.by_category)]
    /\ UNCHANGED <<users, budgets, expenses, budgetSeq, expenseSeq, iv>>

\* The requests of the other clients.
ConcurrentExpenseInputs ==
    { e \in ExpenseInputs : e.date \in {PaddedDate(2024, 12, 31), PaddedDate(2024, 13, 1)} }

NextConc ==
    \/ summary_begin(2024, 12)
    \/ summary_select_budget
    \/ summary_select_total
    \/ summary_select_by_user
    \/ summary_select_by_category
    \/ summary_return
    \/ \E amount \in BudgetAmountInputs : set_budget(2024, 12, amount, 0)
    \/ \E e \in ConcurrentExpenseInputs :
         create_expense(e.date, e.user_id, e.category, e.amount, 0)
    \/ \E expense_id \in ExpenseIdInputs : delete_expense(expense_id, 0)

SpecConc == Init /\ [][NextConc]_vars

RECURSIVE SumTotals(_)
\* The sum of the total_used of a list of summary rows.
SumTotals(rows) ==
    IF rows = <<>> THEN 0 ELSE Head(rows).total_used + SumTotals(Tail(rows))

TotalsAgree(out) ==
    /\ out.total_used = SumTotals(out.by_user)
    /\ out.total_used = SumTotals(out.by_category)

\* C10 as stated: in every summary returned, total_used is the sum of the
\* by_user totals and the sum of the by_category totals, also when other
\* clients' create_expense or delete_expense calls commit between the
\* queries of get_summary.
C10_TotalsAgreeAlways ==
    (summ.pc = "done" /\ IsCall(resp, "get_summary")) => TotalsAgree(resp.body)

\* C10, amended: in every summary returned, total_used is the sum of the
\* by_user totals and the sum of the by_category totals, provided that no
\* create_expense or delete_expense call of another client has committed a
\* change between the total query and the by-category query of the call.
C10_TotalsAgreeUnlessTorn ==
    (summ.pc = "done" /\ IsCall(resp, "get_summary") /\ ~ summ.torn)
        => TotalsAgree(resp.body)

\* A summary returned with expenses of two categories in its month, computed
\* with no write between its queries.
C10_Witness ==
    /\ summ.pc = "done"
    /\ ~ summ.torn
    /\ IsCall(resp, "get_summary")
    /\ Len(resp.body.by_category) = 2
    /\ resp.body.total_used = 4000

====
